---- MODULE Spec2Model ----
(***************************************************************************)
(* State-machine model of sci_storm: the retry-wrapped backend adapter     *)
(* (engine/backend.py), the orchestration engine (engine/inference.py),    *)
(* the expert roster (agents/expert_manager.py) and the tool clients       *)
(* (tools/*.py).                                                           *)
(*                                                                         *)
(* Text is modelled as a sequence of string tokens: an f-string is the     *)
(* concatenation of its literal pieces and its interpolated values, so     *)
(* "begins with", "embeds" and equality of texts are decided on tokens.    *)
(***************************************************************************)
EXTENDS Integers, Sequences, FiniteSets, TLC

VARIABLES
    config,           \* the BackendConfig object shared by adapter and clients
    adapter,          \* "unbuilt" | "ready" | "failed": BackendAdapter.__init__
    active_provider,  \* BackendAdapter.active_provider
    call,             \* the BackendAdapter.generate call in progress / last made
    last_switch,      \* record of the most recent BackendAdapter.switch call
    intended,         \* provider/model the switch calls made so far ask for
    experts,          \* ExpertManager.experts, the ordered roster
    documents,        \* LocalRAGClient.documents
    tavily_key,       \* TavilySearchClient.api_key
    tool,             \* the call last made on a tool client or helper directly
    mcp_config,       \* the MCPConfig of the KISTIMCPClient
    process,          \* KISTIMCPClient._process
    mcp,              \* where the KISTIMCPClient call in progress stands
    op                \* the InferenceEngine operation in progress / last finished

backend_vars == <<config, adapter, active_provider, call, last_switch, intended>>
engine_vars == <<experts, documents, tavily_key, tool, mcp_config, process, mcp, op>>
vars == <<config, adapter, active_provider, call, last_switch, intended,
          experts, documents, tavily_key, tool, mcp_config, process, mcp, op>>

-----------------------------------------------------------------------------
(* Bounds of the model *)

\* largest configured max_retries explored for the retry loop
MaxRetries == 3

\* configured max_retries values explored: negative, zero and positive
RetryValues == (0 - 1)..MaxRetries

-----------------------------------------------------------------------------
(* config.py: BackendConfig *)

DefaultProvider == "ollama"
DefaultModel == "gpt-oss:20b"
DefaultMaxRetries == 3
DefaultRetryBackoff == 2

BackendConfig(provider, model, max_retries) ==
    [provider |-> provider, model |-> model,
     max_retries |-> max_retries, retry_backoff |-> DefaultRetryBackoff]

-----------------------------------------------------------------------------
(* The HTTP environment: what one requests.post can come back with *)

NoText == "n/a"

\* a reply with a status line and a body
Reply(status, body, json_error) ==
    [kind |-> "http", status |-> status, body |-> body, json_error |-> json_error]

\* requests.post raising a RequestException (connection refused, timeout)
TransportFailure ==
    [kind |-> "transport", status |-> 0, body |-> "connection refused",
     json_error |-> NoText]

\* bodies of a 2xx reply: the JSON shape of either provider, or no JSON at all
OllamaBody == "{message:{content:r1}}"
VLLMBody == "{choices:[{message:{content:r1}}]}"
NotJsonBody == "<html>"
ErrorBody == "server said no"

\* response.json() on a body that is not JSON raises JSONDecodeError: a
\* RequestException in requests >= 2.27, a plain ValueError before that
JsonErrorClasses == {"RequestException", "ValueError"}

Outcomes ==
    {TransportFailure}
    \cup {Reply(200, b, NoText) : b \in {OllamaBody, VLLMBody}}
    \cup {Reply(200, NotJsonBody, e) : e \in JsonErrorClasses}
    \cup {Reply(s, ErrorBody, NoText) : s \in {404, 500, 503}}

\* requests.Response.ok: no 4xx/5xx status
ResponseOk(out) == out.status < 400

-----------------------------------------------------------------------------
(* engine/backend.py: BackendResponse and the two clients' _request *)

Providers == {"ollama", "vllm"}

ERROR_MARKER == "[Backend error] "

None == [type |-> "None"]

BackendResponse(content, raw) ==
    [type |-> "BackendResponse", content |-> content, raw |-> raw]

Returned(value) == [kind |-> "return", value |-> value, exc |-> NoText, text |-> NoText]
Raised(exc, text) == [kind |-> "raise", value |-> None, exc |-> exc, text |-> text]

\* data.get("message", {}).get("content", "")
OllamaContent(body) == IF body = OllamaBody THEN <<"r1">> ELSE <<>>

\* data.get("choices", [{}])[0].get("message", {}).get("content", "")
VLLMContent(body) == IF body = VLLMBody THEN <<"r1">> ELSE <<>>

\* status threshold at and above which a reply is a retryable server error
ServerError(out) == out.status >= 500

\* what one attempt's HTTP outcome becomes before the body is parsed
CheckStatus(out) ==
    IF out.kind = "transport" THEN Raised("RequestException", out.body)
    ELSE IF ServerError(out) THEN Raised("BackendRetryableError", out.body)
    ELSE IF ~ResponseOk(out) THEN Raised("BackendError", out.body)
    ELSE IF out.body = NotJsonBody THEN Raised(out.json_error, "Expecting value")
    ELSE Returned(None)

OllamaRequest(out) ==
    IF CheckStatus(out).kind = "raise" THEN CheckStatus(out)
    ELSE Returned(BackendResponse(OllamaContent(out.body), [data |-> out.body]))

VLLMRequest(out) ==
    IF CheckStatus(out).kind = "raise" THEN CheckStatus(out)
    ELSE Returned(BackendResponse(VLLMContent(out.body), [data |-> out.body]))

Request(provider, out) ==
    IF provider = "ollama" THEN OllamaRequest(out) ELSE VLLMRequest(out)

Endpoint(provider) ==
    IF provider = "ollama" THEN "/api/chat" ELSE "/v1/chat/completions"

-----------------------------------------------------------------------------
(* engine/backend.py: BaseBackendClient._retry_loop and _wrap_result *)

NoError == Raised(NoText, NoText)

\* the state of one client.generate call
IdleCall ==
    [pc |-> "idle", provider |-> NoText, url |-> NoText, model |-> NoText,
     attempt |-> 0, outcomes |-> <<>>, events |-> <<>>,
     last_error |-> NoError, exc |-> NoError, result |-> None]

\* client.generate: the payload takes config.model as it is now
StartCall(cfg, provider) ==
    [IdleCall EXCEPT !.pc = "loop", !.provider = provider,
                     !.url = Endpoint(provider), !.model = cfg.model]

\* the except clauses of _retry_loop
IsRetryableMutant(exc) == TRUE
IsRetryable(exc) == exc \in {"BackendRetryableError", "RequestException"}

\* time.sleep(self.config.retry_backoff * attempt)
SleepSeconds(cfg, attempt) == cfg.retry_backoff * attempt

\* for attempt in range(1, self.config.max_retries + 1)
HasNextAttemptMutant(cfg, c) == c.attempt <= cfg.max_retries
HasNextAttempt(cfg, c) == c.attempt + 1 < cfg.max_retries + 1

\* a loop body that notes fn()'s value and goes on to the next attempt
RetryAttemptMutant(cfg, c, out) ==
    LET n == c.attempt + 1
        res == Request(c.provider, out)
        c1 == [c EXCEPT !.attempt = n,
                        !.outcomes = Append(@, out),
                        !.events = Append(@, <<"POST", n>>)]
    IN IF res.kind = "return"
          THEN [c1 EXCEPT !.result = res.value]
       ELSE IF IsRetryable(res.exc)
          THEN [c1 EXCEPT !.last_error = res,
                          !.events = Append(@, <<"sleep", SleepSeconds(cfg, n)>>)]
       ELSE [c1 EXCEPT !.pc = "raised", !.exc = res]

\* one iteration of the loop body, given what fn() did
RetryAttempt(cfg, c, out) ==
    LET n == c.attempt + 1
        res == Request(c.provider, out)
        c1 == [c EXCEPT !.attempt = n,
                        !.outcomes = Append(@, out),
                        !.events = Append(@, <<"POST", n>>)]
    IN IF res.kind = "return"
          THEN [c1 EXCEPT !.pc = "returned", !.result = res.value]
       ELSE IF IsRetryable(res.exc)
          THEN [c1 EXCEPT !.last_error = res,
                          !.events = Append(@, <<"sleep", SleepSeconds(cfg, n)>>)]
       ELSE [c1 EXCEPT !.pc = "raised", !.exc = res]

\* after the loop: if last_error: raise last_error (else fall off the end)
RetryLoopEnd(c) ==
    IF c.last_error # NoError
       THEN [c EXCEPT !.pc = "raised", !.exc = c.last_error]
       ELSE [c EXCEPT !.pc = "returned", !.result = None]

\* _wrap_result: return the loop's value, or turn what it raised into a response
WrapResult(c) ==
    IF c.pc = "returned"
       THEN [c EXCEPT !.pc = "done", !.events = Append(@, <<"return", 0>>)]
    ELSE IF c.pc = "raised"
       THEN [c EXCEPT !.pc = "done",
                      !.events = Append(@, <<"wrap", 0>>),
                      !.result = BackendResponse(<<ERROR_MARKER, c.exc.text>>,
                                                 [error |-> c.exc.text])]
    ELSE c

-----------------------------------------------------------------------------
(* engine/backend.py: BackendAdapter *)

NoSwitch ==
    [called |-> FALSE, provider |-> NoText, model |-> NoText,
     prev_provider |-> NoText, prev_model |-> NoText, raised |-> FALSE]

\* BackendAdapter.__init__
Construct ==
    /\ adapter = "unbuilt"
    /\ IF config.provider \notin Providers
          THEN /\ adapter' = "failed"
               /\ UNCHANGED active_provider
          ELSE /\ adapter' = "ready"
               /\ active_provider' = config.provider
    /\ UNCHANGED <<config, call, last_switch, intended, engine_vars>>

\* if model: (None and "" both leave the model alone)
ModelGiven(model) == model \notin {"None", ""}

\* the state switch leaves behind: <<active_provider, config, raised>>
SwitchEffectMutant(provider, model) ==
    LET cfg == IF ModelGiven(model) THEN [config EXCEPT !.model = model] ELSE config
    IN IF provider \notin Providers
          THEN <<active_provider, cfg, TRUE>>
          ELSE <<provider, cfg, FALSE>>
SwitchEffect(provider, model) ==
    IF provider \notin Providers
       THEN <<active_provider, config, TRUE>>
       ELSE <<provider,
              IF ModelGiven(model) THEN [config EXCEPT !.model = model] ELSE config,
              FALSE>>

ProviderArgs == Providers \cup {"openai"}
ModelArgs == {"None", "", "llama3"}

\* BackendAdapter.switch(provider, model)
Switch ==
    /\ adapter = "ready"
    /\ call.pc # "loop"
    /\ \E provider \in ProviderArgs, model \in ModelArgs :
         LET eff == SwitchEffect(provider, model)
         IN /\ active_provider' = eff[1]
            /\ config' = eff[2]
            /\ last_switch' =
                 [called |-> TRUE, provider |-> provider, model |-> model,
                  prev_provider |-> active_provider, prev_model |-> config.model,
                  raised |-> eff[3]]
            /\ intended' =
                 IF provider \in Providers
                    THEN [provider |-> provider,
                          model |-> IF ModelGiven(model) THEN model
                                    ELSE intended.model]
                    ELSE intended
    /\ call' = IdleCall
    /\ UNCHANGED <<adapter, engine_vars>>

\* the config object a client reads its model from at generate time
ClientConfigMutant(provider) == [config EXCEPT !.model = DefaultModel]
ClientConfig(provider) == config

\* BackendAdapter.generate -> self.client.generate: payload built, loop entered
BeginGenerate ==
    /\ adapter = "ready"
    /\ call.pc # "loop"
    /\ call' = StartCall(ClientConfig(active_provider), active_provider)
    /\ UNCHANGED <<config, adapter, active_provider, last_switch, intended, engine_vars>>

\* one pass through the for loop of _retry_loop: fn() and its except clauses
HttpAttempt ==
    /\ call.pc = "loop"
    /\ HasNextAttempt(config, call)
    /\ \E out \in Outcomes :
         call' = WrapResult(RetryAttempt(config, call, out))
    /\ UNCHANGED <<config, adapter, active_provider, last_switch, intended, engine_vars>>

\* the range is exhausted: the code after the loop, then _wrap_result
RetryExhausted ==
    /\ call.pc = "loop"
    /\ ~HasNextAttempt(config, call)
    /\ call' = WrapResult(RetryLoopEnd(call))
    /\ UNCHANGED <<config, adapter, active_provider, last_switch, intended, engine_vars>>

-----------------------------------------------------------------------------
(* Bounds of the orchestration model *)

\* longest roster explored
MaxRoster == 2

\* largest turns argument of collaborative_dialogue explored
MaxTurns == 2

-----------------------------------------------------------------------------
(* agents/expert_manager.py: ExpertProfile and ExpertManager *)

ExpertProfile(name, system_prompt, focus) ==
    [name |-> name, system_prompt |-> system_prompt, focus |-> focus]

\* the personas register is called with: one without a focus, one with
Personas ==
    {ExpertProfile("Reviewer", "Act like a reviewer.", ""),
     ExpertProfile("Methodologist", "Design experiments.", "methods")}

\* ExpertManager.register
Register ==
    /\ op.pc = "idle"
    /\ Len(experts) < MaxRoster
    /\ \E e \in Personas : experts' = Append(experts, e)
    /\ UNCHANGED <<backend_vars, documents, tavily_key, tool, mcp_config, process, mcp, op>>

\* ExpertManager.clear
Clear ==
    /\ op.pc = "idle"
    /\ experts # <<>>
    /\ experts' = <<>>
    /\ UNCHANGED <<backend_vars, documents, tavily_key, tool, mcp_config, process, mcp, op>>

\* "\n".join(parts): the parts with a separator token between neighbours
RECURSIVE Join(_, _)
Join(sep, parts) ==
    IF parts = <<>> THEN <<>>
    ELSE IF Len(parts) = 1 THEN parts[1]
    ELSE parts[1] \o <<sep>> \o Join(sep, Tail(parts))

\* ExpertManager.describe_team
DescribeExpert(e) ==
    <<"- ", e.name, ": ", IF e.focus = "" THEN "Generalist" ELSE e.focus,
      "NL", e.system_prompt>>

DescribeTeam(roster) ==
    Join("NL", [i \in 1..Len(roster) |-> DescribeExpert(roster[i])])

-----------------------------------------------------------------------------
(* engine/inference.py: InferenceEngine._safe_generate over the adapter *)

\* the reply of a healthy provider, in the shape the active client parses
OkReply(provider) ==
    Reply(200, IF provider = "ollama" THEN OllamaBody ELSE VLLMBody, NoText)

\* the ways the backend fails during one engine operation
Faults == {Reply(503, ErrorBody, NoText), Reply(404, ErrorBody, NoText), TransportFailure}

\* what the provider answers to the successive attempts of one generate call
Scripts(fault) ==
    [1..(IF config.max_retries > 0 THEN config.max_retries ELSE 0)
        -> {OkReply(active_provider), fault}]

\* _retry_loop run to its end against a script of HTTP outcomes
RECURSIVE RetryLoop(_, _, _)
RetryLoop(cfg, c, script) ==
    IF c.pc # "loop" THEN c
    ELSE IF HasNextAttempt(cfg, c)
       THEN RetryLoop(cfg, RetryAttempt(cfg, c, script[c.attempt + 1]), script)
    ELSE RetryLoopEnd(c)

\* BackendAdapter.generate, from payload to returned response
AdapterGenerate(script) ==
    WrapResult(RetryLoop(config,
                         StartCall(ClientConfig(active_provider), active_provider),
                         script))

\* _safe_generate: the adapter's response, or the fallback if generate raised
SafeGenerate(c, fallback) ==
    IF c.pc = "done" THEN c.result
    ELSE BackendResponse(fallback \o <<" Error: ", c.exc.text>>, [error |-> c.exc.text])

\* response.content: an attribute of a BackendResponse, not of None
HasContent(response) == response.type = "BackendResponse"

-----------------------------------------------------------------------------
(* engine/inference.py: the operations of InferenceEngine *)

Topic == "fusion"
FeedbackArgs == {"", "focus on costs"}

IdleOp ==
    [name |-> "none", pc |-> "idle", raised |-> NoText, fault |-> TransportFailure,
     feedback |-> "", turns |-> 0, pass |-> 0, idx |-> 0,
     last_message |-> <<>>, history |-> <<>>, prompts |-> <<>>, replies |-> <<>>,
     calls |-> 0, evidence |-> <<>>, result |-> None]

\* no direct call on a tool client made yet
IdleTool ==
    [name |-> "none", query |-> "", k |-> 0, docs |-> <<>>, before |-> <<>>,
     posts |-> 0, arg |-> <<>>, result |-> None]

\* the KISTIMCPClient call in progress: none
McpIdle ==
    [pc |-> "idle", attempt |-> 0, last_error |-> NoError, events |-> <<>>,
     outcomes |-> <<>>]

\* the engine runs one operation at a time. An operation leaves nothing to the
\* next one but the MCP client's process handle, which only execute_experiment
\* sets and reads, so only a further experiment is followed after the first
\* operation.
CanStart == adapter = "ready" /\ op.pc = "idle"

\* execute_experiment can also follow an earlier execute_experiment
CanStartExperiment ==
    \/ CanStart
    \/ adapter = "ready" /\ op.pc = "done" /\ op.name = "execute_experiment"

Finish(o, result) == [o EXCEPT !.pc = "done", !.result = result]
Fail(o, exc) == [o EXCEPT !.pc = "done", !.raised = exc]

\* the user prompt of generate_outline
OutlinePrompt(roster) ==
    <<"Goal: ", Topic, "Available Experts:">> \o DescribeTeam(roster)
    \o <<"Return a markdown outline">>

\* generate_outline(ctx): one _safe_generate call, its response returned
GenerateOutline ==
    /\ CanStart
    /\ \E fault \in Faults : \E script \in Scripts(fault) :
         LET response == SafeGenerate(AdapterGenerate(script),
                                      <<"Outline generation failed.">>)
         IN op' = Finish([IdleOp EXCEPT !.name = "generate_outline",
                                        !.fault = fault,
                                        !.prompts = <<OutlinePrompt(experts)>>,
                                        !.replies = <<response>>,
                                        !.calls = 1],
                         response)
    /\ mcp' = McpIdle
    /\ UNCHANGED <<backend_vars, experts, documents, tavily_key, tool, mcp_config, process>>

\* the user prompt of synthesize_section
SectionPrompt(title, notes) ==
    <<"Section: ", title, "Goal: ", Topic, "Collected Evidence:">>
    \o Join("NL", notes) \o <<"Write a cohesive draft section">>

SectionNotes == {<<>>, <<<<"note one">>, <<"note two">>>>}

\* synthesize_section(ctx, section_title, notes): one _safe_generate call
SynthesizeSection ==
    /\ CanStart
    /\ \E fault \in Faults, notes \in SectionNotes : \E script \in Scripts(fault) :
         LET response == SafeGenerate(AdapterGenerate(script),
                                      <<"Section synthesis failed.">>)
         IN op' = Finish([IdleOp EXCEPT !.name = "synthesize_section",
                                        !.fault = fault,
                                        !.prompts = <<SectionPrompt("Executive Summary", notes)>>,
                                        !.replies = <<response>>,
                                        !.calls = 1],
                         response)
    /\ mcp' = McpIdle
    /\ UNCHANGED <<backend_vars, experts, documents, tavily_key, tool, mcp_config, process>>

\* seeded_prompt of collaborative_dialogue
SeededPrompt(topic, human_feedback) ==
    <<"Topic: ", topic, "Human feedback: ",
      IF human_feedback = "" THEN "None provided." ELSE human_feedback,
      "Consider prior turns to refine or challenge earlier points. Keep replies concise.">>

\* prompt of one dialogue turn
DialoguePrompt(expert, last_message) ==
    <<expert.system_prompt, "Previous discussion:">> \o last_message
    \o <<"As ", expert.name, ", add, refine, or correct the discussion.">>

\* turn_text = f"{expert.name}: {response.content}"
TurnText(expert, response) == <<expert.name, ": ">> \o response.content

\* last_message = turn_text
NextLastMessageMutant(last_message, turn_text) == last_message
NextLastMessage(last_message, turn_text) == turn_text

\* the loop position after the inner loop's body ran for experts[idx + 1]
NextPosition(pass, idx, n) ==
    IF idx + 1 < n THEN <<pass, idx + 1>> ELSE <<pass + 1, 0>>

\* collaborative_dialogue(topic, human_feedback, turns): up to the first turn
BeginDialogue ==
    /\ CanStart
    /\ \E fault \in Faults, feedback \in FeedbackArgs, turns \in 0..MaxTurns :
         op' = [IdleOp EXCEPT !.name = "collaborative_dialogue",
                              !.pc = "running",
                              !.fault = fault,
                              !.feedback = feedback,
                              !.turns = turns,
                              !.last_message = SeededPrompt(Topic, feedback)]
    /\ mcp' = McpIdle
    /\ UNCHANGED <<backend_vars, experts, documents, tavily_key, tool, mcp_config, process>>

\* one pass through the inner loop body: prompt, _safe_generate, append
DialogueTurn ==
    /\ op.name = "collaborative_dialogue"
    /\ op.pc = "running"
    /\ op.pass < op.turns
    /\ op.idx < Len(experts)
    /\ \E script \in Scripts(op.fault) :
         LET expert == experts[op.idx + 1]
             prompt == DialoguePrompt(expert, op.last_message)
             response == SafeGenerate(AdapterGenerate(script),
                                      <<expert.name, " response unavailable.">>)
             sent == [op EXCEPT !.prompts = Append(@, prompt),
                                !.replies = Append(@, response),
                                !.calls = @ + 1]
             pos == NextPosition(op.pass, op.idx, Len(experts))
         IN IF ~HasContent(response)
               THEN op' = Fail(sent, "AttributeError")
               ELSE op' = [sent EXCEPT
                             !.history = Append(@, TurnText(expert, response)),
                             !.last_message =
                                 NextLastMessage(@, TurnText(expert, response)),
                             !.pass = pos[1],
                             !.idx = pos[2]]
    /\ UNCHANGED <<backend_vars, experts, documents, tavily_key, tool, mcp_config, process, mcp>>

\* both loops are over: return history
DialogueReturn ==
    /\ op.name = "collaborative_dialogue"
    /\ op.pc = "running"
    /\ (op.pass >= op.turns \/ Len(experts) = 0)
    /\ op' = Finish(op, op.history)
    /\ UNCHANGED <<backend_vars, experts, documents, tavily_key, tool, mcp_config, process, mcp>>

-----------------------------------------------------------------------------
(* tools/tavily.py: TavilySearchClient.search *)

NoErrorField == [set |-> FALSE, text |-> <<>>]
ErrorField(text) == [set |-> TRUE, text |-> text]

TavilySource(title, url, content) == [title |-> title, url |-> url, content |-> content]

TavilyResult(query, sources, error) ==
    [type |-> "TavilyResult", query |-> query, sources |-> sources, error |-> error]

\* the result lists a 2xx reply of the search API can carry
SearchResults == {<<>>, <<TavilySource("Paper", "http://x", "abstract")>>}

\* what the POST to the search API can come back with
SearchReply(out, results) ==
    [kind |-> out.kind, status |-> out.status, body |-> out.body, results |-> results]

SearchOutcomes ==
    {SearchReply(out, <<>>) :
        out \in {TransportFailure, Reply(401, ErrorBody, NoText),
                 Reply(200, NotJsonBody, "ValueError")}}
    \cup {SearchReply(Reply(200, "{results:[...]}", NoText), r) : r \in SearchResults}

\* requests.post calls one search makes: none without an API key
SearchPosts(api_key) == IF api_key = "" THEN 0 ELSE 1

\* search(query) that passes an empty result list on as it is
TavilySearchMutant(api_key, query, out) ==
    IF out.kind = "http" /\ ResponseOk(out) /\ out.body # NotJsonBody
       THEN TavilyResult(query, out.results, NoErrorField)
       ELSE TavilyResult(query, <<>>, ErrorField(<<"Tavily search failed: ", out.body>>))

\* search(query): every path ends in a TavilyResult
TavilySearch(api_key, query, out) ==
    IF api_key = ""
       THEN TavilyResult(query, <<>>,
              ErrorField(<<"Tavily API key not configured; skipping live search.">>))
    ELSE IF out.kind = "transport"
       THEN TavilyResult(query, <<>>,
              ErrorField(<<"Tavily search unreachable; continuing without live search. (",
                           out.body, ")">>))
    ELSE IF ~ResponseOk(out)
       THEN TavilyResult(query, <<>>,
              ErrorField(<<"Tavily search failed: ", out.body>>))
    ELSE IF out.body = NotJsonBody
       THEN TavilyResult(query, <<>>,
              ErrorField(<<"Tavily search unreachable; continuing without live search. (",
                           "Expecting value", ")">>))
    ELSE IF out.results = <<>>
       THEN TavilyResult(query, <<>>,
              ErrorField(<<"Tavily search returned no results.">>))
    ELSE TavilyResult(query, out.results, NoErrorField)

-----------------------------------------------------------------------------
(* tools/rag.py: LocalRAGClient *)

DefaultK == 5

\* documents[-k:], the most recent items
SliceToMutant(docs, k) ==
    SubSeq(docs, (IF k < Len(docs) THEN Len(docs) - k ELSE 0) + 1, Len(docs))

\* documents[:k]
SliceTo(docs, k) ==
    IF k >= 0
       THEN SubSeq(docs, 1, IF k < Len(docs) THEN k ELSE Len(docs))
       ELSE SubSeq(docs, 1, IF Len(docs) + k > 0 THEN Len(docs) + k ELSE 0)

\* query(query, k)
RagQuery(docs, query, k) == IF docs = <<>> THEN <<>> ELSE SliceTo(docs, k)

-----------------------------------------------------------------------------
(* engine/inference.py: run_expert_round *)

\* evidence[key] = value on a dict kept in insertion order
RECURSIVE DictSet(_, _, _)
DictSet(d, key, value) ==
    IF d = <<>> THEN <<[key |-> key, value |-> value]>>
    ELSE IF d[1].key = key THEN <<[key |-> key, value |-> value]>> \o Tail(d)
    ELSE <<d[1]>> \o DictSet(Tail(d), key, value)

\* "- {title} ({url})\n{content}"
SourceLine(item) == <<"- ", item.title, " (", item.url, ")", "NL", item.content>>

\* the "tavily" entry of the evidence
TavilyEvidence(result) ==
    IF result.sources # <<>>
       THEN Join("NL", [i \in 1..Len(result.sources) |-> SourceLine(result.sources[i])])
    ELSE IF result.error.set /\ result.error.text # <<>>
       THEN result.error.text
    ELSE <<"Tavily search returned no results.">>

\* the "rag" entry of the evidence
RagEvidence(hits) ==
    IF hits # <<>> THEN Join("NL", hits) ELSE <<"Local RAG returned no matches.">>

\* run_expert_round(query): up to the first expert
BeginExpertRound ==
    /\ CanStart
    /\ \E fault \in Faults :
         op' = [IdleOp EXCEPT !.name = "run_expert_round", !.pc = "running",
                              !.fault = fault]
    /\ mcp' = McpIdle
    /\ UNCHANGED <<backend_vars, experts, documents, tavily_key, tool, mcp_config, process>>

\* the loop body for one expert: _safe_generate, evidence[expert.name] = content
ExpertRoundCall ==
    /\ op.name = "run_expert_round"
    /\ op.pc = "running"
    /\ op.idx < Len(experts)
    /\ \E script \in Scripts(op.fault) :
         LET expert == experts[op.idx + 1]
             response == SafeGenerate(AdapterGenerate(script),
                                      <<expert.name, " unavailable.">>)
             sent == [op EXCEPT !.prompts = Append(@, <<"As ", expert.name, ", analyze: ", Topic>>),
                                !.replies = Append(@, response),
                                !.calls = @ + 1]
         IN IF ~HasContent(response)
               THEN op' = Fail(sent, "AttributeError")
               ELSE op' = [sent EXCEPT
                             !.evidence = DictSet(@, expert.name, response.content),
                             !.idx = @ + 1]
    /\ UNCHANGED <<backend_vars, experts, documents, tavily_key, tool, mcp_config, process, mcp>>

\* the tools step of a round that files the query in the note store
ExpertRoundToolsMutant ==
    /\ op.name = "run_expert_round"
    /\ op.pc = "running"
    /\ op.idx >= Len(experts)
    /\ op' = Finish(op, <<op.evidence, TavilySearch("", Topic, TransportFailure)>>)
    /\ documents' = Append(documents, <<Topic>>)
    /\ UNCHANGED <<backend_vars, experts, tavily_key, tool, mcp_config, process, mcp>>

\* after the loop: the search, the note store, the return
ExpertRoundTools ==
    /\ op.name = "run_expert_round"
    /\ op.pc = "running"
    /\ op.idx >= Len(experts)
    /\ \E out \in SearchOutcomes :
         LET tavily_result == TavilySearch(tavily_key, Topic, out)
             rag_hits == RagQuery(documents, Topic, DefaultK)
             evidence == DictSet(DictSet(op.evidence, "tavily", TavilyEvidence(tavily_result)),
                                 "rag", RagEvidence(rag_hits))
         IN op' = Finish([op EXCEPT !.evidence = evidence],
                         <<evidence, tavily_result>>)
    /\ UNCHANGED <<backend_vars, experts, documents, tavily_key, tool, mcp_config, process, mcp>>

-----------------------------------------------------------------------------
(* config.py: MCPConfig; tools/kisti_mcp.py: KISTIMCPClient *)

DefaultMcpRetries == 3
DefaultMcpBackoff == 2
DefaultStartupCommand == "kisti-mcp serve --host 0.0.0.0 --port 8000"

MCPConfig(startup_command, max_retries) ==
    [startup_command |-> startup_command, max_retries |-> max_retries,
     retry_backoff |-> DefaultMcpBackoff]

NoProcess == "None"

\* for attempt in range(1, self.config.max_retries + 1)
McpHasNext(cfg, m) == m.attempt + 1 < cfg.max_retries + 1

\* one iteration of _retry: fn() and except Exception
McpRetryAttempt(cfg, m, verb, res) ==
    LET n == m.attempt + 1
        m1 == [m EXCEPT !.attempt = n, !.events = Append(@, <<verb, n>>)]
    IN IF res.kind = "return" THEN m1
       ELSE [m1 EXCEPT !.last_error = res,
                       !.events = Append(@, <<"sleep", cfg.retry_backoff * n>>)]

\* replies of the server to GET /health
HealthOutcomes == {TransportFailure, Reply(200, "ok", NoText), Reply(503, ErrorBody, NoText)}

\* _handshake._call: get, raise_for_status, return True
HandshakeCall(out) ==
    IF out.kind = "transport" THEN Raised("requests.ConnectionError", out.body)
    ELSE IF out.status >= 400 THEN Raised("HTTPError", out.body)
    ELSE Returned(None)

\* the mappings a 2xx reply to POST /execute can carry
NoDict == [summary |-> "", stdout |-> "", result |-> "", logs |-> "", stderr |-> ""]

\* each key absent (or empty) and present, each `or` taking either side
ResultDicts ==
    {NoDict,
     [NoDict EXCEPT !.summary = "ran", !.stdout = "42"],
     [NoDict EXCEPT !.result = "ok", !.logs = "warning"],
     [NoDict EXCEPT !.stderr = "trace"],
     [NoDict EXCEPT !.summary = "ran", !.stdout = "42", !.result = "ok",
                    !.logs = "warning", !.stderr = "trace"]}

\* what the POST to /execute can come back with
ExecuteReply(out, data) ==
    [kind |-> out.kind, status |-> out.status, body |-> out.body,
     json_error |-> out.json_error, data |-> data]

ExecuteOutcomes ==
    {ExecuteReply(out, NoDict) :
        out \in {TransportFailure, Reply(503, ErrorBody, NoText),
                 Reply(404, ErrorBody, NoText), Reply(200, NotJsonBody, "ValueError")}}
    \cup {ExecuteReply(Reply(200, "{...}", NoText), d) : d \in ResultDicts}

\* run_experiment._call: post, 5xx check, raise_for_status, json
ExecuteCall(out) ==
    IF out.kind = "transport" THEN Raised("requests.ConnectionError", out.body)
    ELSE IF out.status >= 500 THEN Raised("RuntimeError", out.body)
    ELSE IF out.status >= 400 THEN Raised("HTTPError", out.body)
    ELSE IF out.body = NotJsonBody THEN Raised(out.json_error, "Expecting value")
    ELSE Returned(out.data)

\* a Python str as text: the empty string has no tokens
Str(x) == IF x = "" THEN <<>> ELSE <<x>>

\* x or y on strings
OrElse(x, y) == IF x # "" THEN x ELSE y

\* interpret_result that leaves the logs out
InterpretResultMutant(result) ==
    Join("NL", <<Str("### MCP Execution Summary"),
                 Str(OrElse(result.summary,
                            "The MCP server did not return an explicit summary.")),
                 Str(""),
                 Str("### Output"),
                 Str(OrElse(result.stdout, result.result))>>)

\* interpret_result(result)
InterpretResult(result) ==
    LET logs == OrElse(result.logs, result.stderr)
        output == OrElse(result.stdout, result.result)
        summary == result.summary
        parts == <<Str("### MCP Execution Summary"),
                   Str(OrElse(summary, "The MCP server did not return an explicit summary.")),
                   Str(""),
                   Str("### Output"),
                   Str(output)>>
    IN Join("NL", IF logs # ""
                     THEN parts \o <<Str(""), Str("### Logs"), Str(logs)>>
                     ELSE parts)

\* execute_experiment(hypothesis, code) -> run_experiment -> ensure_server
BeginExperiment ==
    /\ CanStartExperiment
    /\ op' = [IdleOp EXCEPT !.name = "execute_experiment", !.pc = "running"]
    /\ mcp' = [McpIdle EXCEPT !.pc = "handshake1"]
    /\ UNCHANGED <<backend_vars, experts, documents, tavily_key, tool, mcp_config, process>>

\* one attempt of _handshake; success ends ensure_server and opens the POST loop
McpHandshakeAttempt ==
    /\ mcp.pc \in {"handshake1", "handshake2"}
    /\ McpHasNext(mcp_config, mcp)
    /\ \E out \in HealthOutcomes :
         LET res == HandshakeCall(out)
             m == McpRetryAttempt(mcp_config, mcp, "GET", res)
         IN mcp' = IF res.kind = "return"
                      THEN [m EXCEPT !.pc = "execute", !.attempt = 0,
                                     !.last_error = NoError]
                      ELSE m
    /\ UNCHANGED <<backend_vars, experts, documents, tavily_key, tool, mcp_config, process, op>>

\* a launch test that does not look at the process handle
ShouldStartMutant(proc, cfg) == cfg.startup_command # ""

\* whether ensure_server launches the startup command after a failed handshake
ShouldStart(proc, cfg) == proc = NoProcess /\ cfg.startup_command # ""

\* ensure_server that goes on to the POST whatever the second check said
McpHandshakeFailedMutant ==
    /\ mcp.pc \in {"handshake1", "handshake2"}
    /\ ~McpHasNext(mcp_config, mcp)
    /\ mcp' = [mcp EXCEPT !.pc = IF @ = "handshake1" THEN "handshake2" ELSE "execute",
                          !.attempt = 0, !.last_error = NoError]
    /\ UNCHANGED <<backend_vars, experts, documents, tavily_key, tool, mcp_config,
                   process, op>>

\* _handshake gave up (False, or None when the range is empty): ensure_server
\* starts the server and checks again, or raises after the second check
McpHandshakeFailed ==
    /\ mcp.pc \in {"handshake1", "handshake2"}
    /\ ~McpHasNext(mcp_config, mcp)
    /\ IF mcp.pc = "handshake1"
          THEN /\ process' = IF ShouldStart(process, mcp_config) THEN "Popen" ELSE process
               /\ mcp' = [mcp EXCEPT !.pc = "handshake2", !.attempt = 0,
                                     !.last_error = NoError,
                                     !.events = IF ShouldStart(process, mcp_config)
                                                   THEN @ \o <<<<"Popen", 0>>, <<"sleep", 1>>>>
                                                   ELSE @]
               /\ UNCHANGED op
          ELSE /\ mcp' = [mcp EXCEPT !.pc = "done"]
               /\ op' = Fail(op, "ConnectionError")
               /\ UNCHANGED process
    /\ UNCHANGED <<backend_vars, experts, documents, tavily_key, tool, mcp_config>>

\* one attempt of the execute POST; a parsed reply is interpreted and returned
McpExecuteAttempt ==
    /\ mcp.pc = "execute"
    /\ McpHasNext(mcp_config, mcp)
    /\ \E out \in ExecuteOutcomes :
         LET res == ExecuteCall(out)
             m == [McpRetryAttempt(mcp_config, mcp, "POST", res)
                     EXCEPT !.outcomes = Append(@, out)]
         IN IF res.kind = "return"
               THEN /\ mcp' = [m EXCEPT !.pc = "done"]
                    /\ op' = Finish(op, InterpretResult(res.value))
               ELSE /\ mcp' = m
                    /\ UNCHANGED op
    /\ UNCHANGED <<backend_vars, experts, documents, tavily_key, tool, mcp_config, process>>

\* the POST loop is over without a reply: raise last_error, or return None,
\* on which interpret_result fails
McpExecuteFailed ==
    /\ mcp.pc = "execute"
    /\ ~McpHasNext(mcp_config, mcp)
    /\ mcp' = [mcp EXCEPT !.pc = "done"]
    /\ op' = IF mcp.last_error # NoError
                THEN Fail(op, mcp.last_error.exc)
                ELSE Fail(op, "AttributeError")
    /\ UNCHANGED <<backend_vars, experts, documents, tavily_key, tool, mcp_config, process>>

-----------------------------------------------------------------------------
(* Specifications *)

InitTools ==
    /\ experts = <<>>
    /\ documents = <<>>
    /\ tavily_key = ""
    /\ tool = IdleTool
    /\ mcp_config = MCPConfig(DefaultStartupCommand, DefaultMcpRetries)
    /\ process = NoProcess
    /\ mcp = McpIdle
    /\ op = IdleOp

\* the retry loop: a built adapter, any max_retries
InitBackend ==
    /\ \E p \in Providers, m \in RetryValues :
         /\ config = BackendConfig(p, DefaultModel, m)
         /\ active_provider = p
    /\ adapter = "ready"
    /\ call = IdleCall
    /\ last_switch = NoSwitch
    /\ intended = [provider |-> active_provider, model |-> config.model]
    /\ InitTools

NextBackend == BeginGenerate \/ HttpAttempt \/ RetryExhausted

SpecBackend == InitBackend /\ [][NextBackend]_vars

\* the adapter: construction, switch, dispatch
InitAdapter ==
    /\ \E p \in ProviderArgs : config = BackendConfig(p, DefaultModel, DefaultMaxRetries)
    /\ adapter = "unbuilt"
    /\ active_provider = NoText
    /\ call = IdleCall
    /\ last_switch = NoSwitch
    /\ intended = [provider |-> config.provider, model |-> config.model]
    /\ InitTools

NextAdapter == Construct \/ Switch \/ BeginGenerate \/ HttpAttempt \/ RetryExhausted

SpecAdapter == InitAdapter /\ [][NextAdapter]_vars

\* max_retries values the engine runs with: none at all, and retries
EngineRetryChoices == {0, 2}

\* the engine over a built adapter, a roster under construction and the tools
InitEngine ==
    /\ \E m \in EngineRetryChoices : config = BackendConfig(DefaultProvider, DefaultModel, m)
    /\ active_provider = DefaultProvider
    /\ adapter = "ready"
    /\ call = IdleCall
    /\ last_switch = NoSwitch
    /\ intended = [provider |-> active_provider, model |-> config.model]
    /\ experts = <<>>
    /\ documents = <<>>
    /\ tavily_key \in {"", "tvly-key"}
    /\ tool = IdleTool
    /\ mcp_config = MCPConfig(DefaultStartupCommand, DefaultMcpRetries)
    /\ process = NoProcess
    /\ mcp = McpIdle
    /\ op = IdleOp

NextEngine ==
    \/ Register \/ Clear
    \/ GenerateOutline \/ SynthesizeSection
    \/ BeginExpertRound \/ ExpertRoundCall \/ ExpertRoundTools
    \/ BeginDialogue \/ DialogueTurn \/ DialogueReturn
    \/ BeginExperiment \/ McpHandshakeAttempt \/ McpHandshakeFailed
    \/ McpExecuteAttempt \/ McpExecuteFailed

SpecEngine == InitEngine /\ [][NextEngine]_vars

-----------------------------------------------------------------------------
(* The evidence round over a given roster and a filled note store *)

\* most items the note store holds
MaxDocs == 2

\* a text blob: the empty string, or one with something in it
DocItems == {<<>>, <<"note a">>}

\* the arguments ingest is called with: no blob, one, or two
DocBatches ==
    {<<>>} \cup {<<d>> : d \in DocItems} \cup {<<d, e>> : d \in DocItems, e \in DocItems}

\* LocalRAGClient.ingest(docs): append every blob, in order
Ingest ==
    /\ op.pc = "idle"
    /\ tool.name \in {"none", "ingest"}
    /\ \E docs \in DocBatches :
         /\ Len(documents) + Len(docs) <= MaxDocs
         /\ documents' = documents \o docs
         /\ tool' = [IdleTool EXCEPT !.name = "ingest", !.docs = docs,
                                     !.before = documents]
    /\ UNCHANGED <<backend_vars, experts, tavily_key, mcp_config, process, mcp, op>>

\* personas of a configured roster: names are free text, "tavily" included
RoundPersonas ==
    {ExpertProfile("Reviewer", "Act like a reviewer.", ""),
     ExpertProfile("tavily", "Search the web.", "search")}

\* ExpertManager(experts): the rosters an engine is built over
RoundRosters ==
    UNION {[1..n -> RoundPersonas] : n \in 0..MaxRoster}

InitRound ==
    /\ \E m \in EngineRetryChoices : config = BackendConfig(DefaultProvider, DefaultModel, m)
    /\ active_provider = DefaultProvider
    /\ adapter = "ready"
    /\ call = IdleCall
    /\ last_switch = NoSwitch
    /\ intended = [provider |-> active_provider, model |-> config.model]
    /\ experts \in RoundRosters
    /\ documents = <<>>
    /\ tavily_key \in {"", "tvly-key"}
    /\ tool = IdleTool
    /\ mcp_config = MCPConfig(DefaultStartupCommand, DefaultMcpRetries)
    /\ process = NoProcess
    /\ mcp = McpIdle
    /\ op = IdleOp

NextRound == Ingest \/ BeginExpertRound \/ ExpertRoundCall \/ ExpertRoundTools

SpecRound == InitRound /\ [][NextRound]_vars

-----------------------------------------------------------------------------
(* The tool clients and helpers called on their own *)

\* query texts handed to the search client and the note store
Queries == {"fusion", "plasma"}

\* one direct call is followed per behaviour, after the store was filled
CanCall == op.pc = "idle" /\ tool.name \in {"none", "ingest"}

\* TavilySearchClient.search(query)
SearchCall ==
    /\ CanCall
    /\ \E query \in Queries, out \in SearchOutcomes :
         tool' = [IdleTool EXCEPT !.name = "search", !.query = query,
                                  !.posts = SearchPosts(tavily_key),
                                  !.result = TavilySearch(tavily_key, query, out)]
    /\ UNCHANGED <<backend_vars, experts, documents, tavily_key, mcp_config, process, mcp, op>>

\* raw results with every combination of keys present and absent (or empty)
ResultCombos ==
    [summary : {"", "ran"}, stdout : {"", "42"}, result : {"", "ok"},
     logs : {"", "warning"}, stderr : {"", "trace"}]

\* KISTIMCPClient.interpret_result(result)
InterpretCall ==
    /\ CanCall
    /\ \E d \in ResultCombos :
         tool' = [IdleTool EXCEPT !.name = "interpret", !.arg = <<d>>,
                                  !.result = InterpretResult(d)]
    /\ UNCHANGED <<backend_vars, experts, documents, tavily_key, mcp_config, process, mcp, op>>

\* the k arguments of query: negative, zero, below and above the store's size
QueryKs == (0 - 1)..(MaxDocs + 1)

\* LocalRAGClient.query(query, k)
QueryCall ==
    /\ CanCall
    /\ \E query \in Queries, k \in QueryKs :
         tool' = [IdleTool EXCEPT !.name = "query", !.query = query, !.k = k,
                                  !.result = RagQuery(documents, query, k)]
    /\ UNCHANGED <<backend_vars, experts, documents, tavily_key, mcp_config, process, mcp, op>>

\* pipeline/cli.py: _parse_outline_sections. A string is its sequence of
\* characters; "NL" is the line break.

\* most lines an outline is written with
MaxLines == 2

\* str.lstrip(chars)
RECURSIVE LStrip(_, _)
LStrip(s, chars) ==
    IF s # <<>> /\ Head(s) \in chars THEN LStrip(Tail(s), chars) ELSE s

\* str.rstrip(chars)
RECURSIVE RStrip(_, _)
RStrip(s, chars) ==
    IF s # <<>> /\ s[Len(s)] \in chars THEN RStrip(SubSeq(s, 1, Len(s) - 1), chars) ELSE s

\* str.strip(): whitespace off both ends
Strip(s) == RStrip(LStrip(s, {" "}), {" "})

\* str.startswith("#")
StartsWithHash(s) == s # <<>> /\ Head(s) = "#"

\* str.splitlines(): the pieces between line breaks, no piece after a final break
RECURSIVE Splitlines(_, _)
Splitlines(s, line) ==
    IF s = <<>> THEN (IF line = <<>> THEN <<>> ELSE <<line>>)
    ELSE IF Head(s) = "NL" THEN <<line>> \o Splitlines(Tail(s), <<>>)
    ELSE Splitlines(Tail(s), Append(line, Head(s)))

\* the loop over the lines: sections.append(title) for every heading with a title
RECURSIVE CollectSections(_)
CollectSections(lines) ==
    IF lines = <<>> THEN <<>>
    ELSE LET stripped == Strip(Head(lines))
             title == Strip(LStrip(stripped, {"#"}))
             rest == CollectSections(Tail(lines))
         IN IF StartsWithHash(stripped) /\ title # <<>> THEN <<title>> \o rest ELSE rest

DefaultSection == <<"Executive Summary">>

\* _parse_outline_sections that returns the headings found, even if none
ParseOutlineSectionsMutant(outline) == CollectSections(Splitlines(outline, <<>>))

\* _parse_outline_sections(outline): sections or ["Executive Summary"]
ParseOutlineSections(outline) ==
    LET sections == CollectSections(Splitlines(outline, <<>>))
    IN IF sections # <<>> THEN sections ELSE <<DefaultSection>>

\* lines an outline is written with: headings of two levels, plain text, an
\* empty line, a bare marker, an indented heading, a heading with a marker inside
OutlineLines ==
    {<<"#", " ", "A">>, <<"#", "#", " ", "B">>, <<"A">>, <<>>, <<"#">>,
     <<" ", "#", " ", "A", " ">>, <<"#", "A", "#">>}

\* the outlines of up to MaxLines lines
OutlineTexts == UNION {[1..n -> OutlineLines] : n \in 0..MaxLines}

\* _parse_outline_sections(ctx.outline or "")
ParseOutlineCall ==
    /\ CanCall
    /\ \E lines \in OutlineTexts :
         tool' = [IdleTool EXCEPT !.name = "parse", !.docs = lines,
                                  !.arg = Join("NL", lines),
                                  !.result = ParseOutlineSections(Join("NL", lines))]
    /\ UNCHANGED <<backend_vars, experts, documents, tavily_key, mcp_config, process, mcp, op>>

InitClients ==
    /\ config = BackendConfig(DefaultProvider, DefaultModel, DefaultMaxRetries)
    /\ active_provider = DefaultProvider
    /\ adapter = "ready"
    /\ call = IdleCall
    /\ last_switch = NoSwitch
    /\ intended = [provider |-> active_provider, model |-> config.model]
    /\ experts = <<>>
    /\ documents = <<>>
    /\ tavily_key \in {"", "tvly-key"}
    /\ tool = IdleTool
    /\ mcp_config = MCPConfig(DefaultStartupCommand, DefaultMcpRetries)
    /\ process = NoProcess
    /\ mcp = McpIdle
    /\ op = IdleOp

NextClients ==
    Ingest \/ QueryCall \/ SearchCall \/ InterpretCall \/ ParseOutlineCall

SpecClients == InitClients /\ [][NextClients]_vars

-----------------------------------------------------------------------------
(* The KISTI MCP client under every configuration *)

\* configured max_retries of the MCP client: none, one, the default
McpRetryValues == {0, 1, DefaultMcpRetries}

\* startup_command: the default one, or none configured
StartupCommands == {DefaultStartupCommand, ""}

InitMcp ==
    /\ config = BackendConfig(DefaultProvider, DefaultModel, DefaultMaxRetries)
    /\ active_provider = DefaultProvider
    /\ adapter = "ready"
    /\ call = IdleCall
    /\ last_switch = NoSwitch
    /\ intended = [provider |-> active_provider, model |-> config.model]
    /\ experts = <<>>
    /\ documents = <<>>
    /\ tavily_key = ""
    /\ tool = IdleTool
    /\ \E s \in StartupCommands, r \in McpRetryValues : mcp_config = MCPConfig(s, r)
    /\ process = NoProcess
    /\ mcp = McpIdle
    /\ op = IdleOp

NextMcp ==
    \/ BeginExperiment
    \/ McpHandshakeAttempt \/ McpHandshakeFailed
    \/ McpExecuteAttempt \/ McpExecuteFailed

SpecMcp == InitMcp /\ [][NextMcp]_vars

-----------------------------------------------------------------------------
(* The orchestration operations next to the roster and the note store *)

\* the note store an engine is handed: nothing ingested, or two blobs
HydratedStores == {<<>>, <<<<>>, <<"note a">>>>}

InitFrame ==
    /\ \E m \in EngineRetryChoices : config = BackendConfig(DefaultProvider, DefaultModel, m)
    /\ active_provider = DefaultProvider
    /\ adapter = "ready"
    /\ call = IdleCall
    /\ last_switch = NoSwitch
    /\ intended = [provider |-> active_provider, model |-> config.model]
    /\ experts = <<>>
    /\ documents \in HydratedStores
    /\ tavily_key = "tvly-key"
    /\ tool = IdleTool
    /\ mcp_config = MCPConfig(DefaultStartupCommand, DefaultMcpRetries)
    /\ process = NoProcess
    /\ mcp = McpIdle
    /\ op = IdleOp

NextFrame ==
    \/ Register \/ Clear
    \/ GenerateOutline \/ SynthesizeSection
    \/ BeginExpertRound \/ ExpertRoundCall \/ ExpertRoundTools
    \/ BeginDialogue \/ DialogueTurn \/ DialogueReturn

SpecFrame == InitFrame /\ [][NextFrame]_vars

-----------------------------------------------------------------------------
(* Helpers for stating the claims *)

RECURSIVE IsPrefix(_, _)
IsPrefix(s, t) ==
    IF s = <<>> THEN TRUE
    ELSE IF t = <<>> THEN FALSE
    ELSE Head(s) = Head(t) /\ IsPrefix(Tail(s), Tail(t))

ErrorMarked(resp, text) ==
    /\ resp.type = "BackendResponse"
    /\ Len(resp.content) >= 1
    /\ resp.content[1] = ERROR_MARKER
    /\ "error" \in DOMAIN resp.raw
    /\ resp.raw.error = text

ClientError(out) == out.kind = "http" /\ out.status >= 400 /\ out.status < 500

Parsed(out) == out.kind = "http" /\ out.status < 400 /\ out.body # NotJsonBody

\* the text an outcome's failure carries: response.text or str(exc)
FailureText(out) == IF Parsed(out) THEN NoText
                    ELSE IF out.body = NotJsonBody THEN "Expecting value"
                    ELSE out.body

LastOutcome(c) == c.outcomes[Len(c.outcomes)]

-----------------------------------------------------------------------------
(* Claims about the backend adapter *)

\* C1: for every max_retries value, either provider and every sequence of HTTP
\* outcomes, a finished generate call has returned a BackendResponse: the text
\* parsed from a successful reply, or a response whose content begins with
\* "[Backend error] " and whose raw payload holds the error text under "error".
C1_GenerateReturnsResponse ==
    call.pc = "done" =>
        /\ call.result.type = "BackendResponse"
        /\ \/ /\ call.outcomes # <<>>
              /\ Parsed(LastOutcome(call))
              /\ call.result.content \in {<<"r1">>, <<>>}
              /\ call.result.raw = [data |-> LastOutcome(call).body]
           \/ /\ call.outcomes # <<>>
              /\ ~Parsed(LastOutcome(call))
              /\ ErrorMarked(call.result, FailureText(LastOutcome(call)))

\* C2: with max_retries = 3 and every reply an HTTP 503, generate makes exactly
\* 3 attempts, sleeps backoff*1, backoff*2, backoff*3 (one sleep after each
\* failed attempt) and only then returns the error-marked response; there is
\* never a fourth attempt.
C2_Script503 ==
    <<<<"POST", 1>>, <<"sleep", config.retry_backoff * 1>>,
      <<"POST", 2>>, <<"sleep", config.retry_backoff * 2>>,
      <<"POST", 3>>, <<"sleep", config.retry_backoff * 3>>,
      <<"wrap", 0>>>>

C2_All503(c) ==
    \A k \in 1..Len(c.outcomes) :
        c.outcomes[k].kind = "http" /\ c.outcomes[k].status = 503

C2_ThreeAttemptsOn503 ==
    (config.max_retries = 3 /\ call.pc # "idle" /\ C2_All503(call)) =>
        /\ call.attempt <= 3
        /\ IsPrefix(call.events, C2_Script503)
        /\ call.pc = "done" =>
             /\ call.attempt = 3
             /\ call.events = C2_Script503
             /\ ErrorMarked(call.result, ErrorBody)

C2_Witness ==
    /\ config.max_retries = 3
    /\ call.pc = "done"
    /\ Len(call.outcomes) = 3
    /\ C2_All503(call)

C4_AtLeastOneAttempt ==
    call.pc = "done" =>
        /\ call.attempt >= 1
        /\ config.max_retries >= 1 => call.attempt <= config.max_retries

\* C7: construction and switch both fail on a provider that is not "ollama" or
\* "vllm"; a failed switch leaves the active provider and the configured model
\* as they were, whatever model argument came with it.
C7_UnknownProviderRejected ==
    /\ adapter = "failed" <=> (adapter # "unbuilt" /\ config.provider \notin Providers)
    /\ adapter = "ready" => active_provider \in Providers
    /\ last_switch.called =>
         /\ last_switch.raised <=> last_switch.provider \notin Providers
         /\ last_switch.raised =>
              /\ active_provider = last_switch.prev_provider
              /\ config.model = last_switch.prev_model

C7_Witness ==
    /\ last_switch.called
    /\ last_switch.provider = "openai"
    /\ last_switch.model = "llama3"
    /\ last_switch.raised
    /\ config.model # "llama3"

\* C8: a generate call made after any sequence of switch calls goes to the
\* provider named by the last successful switch and sends the model given by
\* the last successful switch that gave one (the configured model if none
\* did); a switch from "ollama" to "vllm" without a model keeps the model.
C8_GenerateFollowsLastSwitch ==
    call.pc # "idle" =>
        /\ call.provider = intended.provider
        /\ call.url = Endpoint(intended.provider)
        /\ call.model = intended.model
        /\ ( /\ last_switch.called
             /\ ~last_switch.raised
             /\ last_switch.prev_provider = "ollama"
             /\ last_switch.provider = "vllm"
             /\ ~ModelGiven(last_switch.model) )
           => (call.model = last_switch.prev_model /\ call.url = "/v1/chat/completions")

C8_Witness ==
    /\ call.pc = "done"
    /\ last_switch.called
    /\ last_switch.prev_provider = "ollama"
    /\ last_switch.provider = "vllm"
    /\ last_switch.model = "None"
    /\ call.url = "/v1/chat/completions"
    /\ call.model = "llama3"

-----------------------------------------------------------------------------
(* Claims about the inference engine *)

\* the fallback string each single-call operation hands to _safe_generate
FallbackOf(name) ==
    IF name = "generate_outline" THEN <<"Outline generation failed.">>
    ELSE <<"Section synthesis failed.">>

\* the "previous discussion" a dialogue prompt embeds: what stands between the
\* two-token header and the three-token closing line
Embedded(prompt) == SubSeq(prompt, 3, Len(prompt) - 3)

\* C5: for a roster of N personas and turns = T, a finished
\* collaborative_dialogue has returned (not raised) exactly N*T entries, and
\* the entry at 0-based index p*N+i is "{name}: {reply}" for the i-th persona
\* in pass p, the reply being the content the backend call for that turn
\* produced, failed calls included.
C5_DialogueTranscript ==
    (op.name = "collaborative_dialogue" /\ op.pc = "done") =>
        /\ op.raised = NoText
        /\ Len(op.result) = Len(experts) * op.turns
        /\ \A p \in 0..(op.turns - 1) : \A i \in 0..(Len(experts) - 1) :
             LET k == p * Len(experts) + i + 1
             IN op.result[k] = <<experts[i + 1].name, ": ">> \o op.replies[k].content

\* C6: in collaborative_dialogue the prompt sent for the first entry embeds the
\* seed message built from topic and human feedback, and the prompt sent for
\* every later entry j embeds exactly the text of entry j-1, nothing earlier;
\* this holds across pass boundaries as well.
C6_PromptEmbedsPreviousEntry ==
    op.name = "collaborative_dialogue" =>
        \A j \in 1..Len(op.prompts) :
            /\ Embedded(op.prompts[j]) =
                 IF j = 1 THEN SeededPrompt(Topic, op.feedback) ELSE op.history[j - 1]
            /\ op.prompts[j][1] = experts[((j - 1) % Len(experts)) + 1].system_prompt

C6_Witness ==
    /\ op.name = "collaborative_dialogue"
    /\ op.pc = "done"
    /\ op.raised = NoText
    /\ Len(experts) = 2
    /\ experts[1] # experts[2]
    /\ op.turns = 2
    /\ Len(op.prompts) = 4
    /\ op.history[1] # op.history[2]
    /\ Embedded(op.prompts[3]) = op.history[2]
    /\ op.prompts[3][1] = experts[1].system_prompt

\* C9: every finished engine operation (generate_outline, synthesize_section,
\* run_expert_round, collaborative_dialogue, execute_experiment) has returned
\* a result and has not raised, whatever the backend, the search API and the
\* execution server answered.
C9_OperationsNeverRaise ==
    op.pc = "done" =>
        /\ op.raised = NoText
        /\ op.name \in {"generate_outline", "synthesize_section"} =>
             op.result.type = "BackendResponse"

\* C10: generate_outline and synthesize_section make exactly one backend
\* generate call and do not raise; when that call failed (its response carries
\* an error), the content of the returned response begins with the operation's
\* fallback string, "Outline generation failed." or "Section synthesis failed.".
C10_FallbackOnFailure ==
    (op.pc = "done" /\ op.name \in {"generate_outline", "synthesize_section"}) =>
        /\ op.calls = 1
        /\ op.raised = NoText
        /\ (op.result.type = "BackendResponse" /\ "error" \in DOMAIN op.result.raw) =>
             IsPrefix(FallbackOf(op.name), op.result.content)

-----------------------------------------------------------------------------
(* Claims about the evidence round and the tool clients *)

\* the value a key maps to in an insertion-ordered dict
DictGet(d, key) == d[CHOOSE i \in 1..Len(d) : d[i].key = key].value

\* how many entries of the dict carry the key
DictCount(d, key) == Cardinality({i \in 1..Len(d) : d[i].key = key})

\* the position of the last persona of the roster that carries the name
LastNamed(roster, name) ==
    CHOOSE j \in 1..Len(roster) :
        /\ roster[j].name = name
        /\ \A l \in (j + 1)..Len(roster) : roster[l].name # name

\* C11: a finished run_expert_round has made one backend call per persona, in
\* roster order, and has returned a mapping in which every persona name of the
\* roster maps to the response text of the last persona carrying that name,
\* together with exactly one "tavily" entry and one "rag" entry.
C11_ExpertRoundMapping ==
    (op.name = "run_expert_round" /\ op.pc = "done") =>
        /\ op.raised = NoText
        /\ op.calls = Len(experts)
        /\ \A i \in 1..Len(experts) :
             /\ op.prompts[i] = <<"As ", experts[i].name, ", analyze: ", Topic>>
             /\ DictCount(op.result[1], experts[i].name) = 1
             /\ DictGet(op.result[1], experts[i].name) =
                  op.replies[LastNamed(experts, experts[i].name)].content
        /\ DictCount(op.result[1], "tavily") = 1
        /\ DictCount(op.result[1], "rag") = 1

\* C12: in the mapping a run_expert_round returned, the "tavily" entry and the
\* "rag" entry are never the empty text, whatever the search came back with
\* and whatever the note store holds (empty strings included).
C12_ToolEntriesNeverEmpty ==
    (op.name = "run_expert_round" /\ op.pc = "done" /\ op.raised = NoText) =>
        /\ DictGet(op.result[1], "tavily") # <<>>
        /\ DictGet(op.result[1], "rag") # <<>>

\* C13: every search call ends with a TavilyResult (it never raises) that
\* has either a non-empty source list and no error, or an empty source list
\* and a non-empty error message, never both and never neither; without an
\* API key the result carries the fixed message and no HTTP request was made.
C13_SearchResultFlagged ==
    tool.name = "search" =>
        /\ tool.result.type = "TavilyResult"
        /\ tool.result.query = tool.query
        /\ \/ /\ tool.result.sources # <<>>
              /\ ~tool.result.error.set
           \/ /\ tool.result.sources = <<>>
              /\ tool.result.error.set
              /\ tool.result.error.text # <<>>
        /\ tavily_key = "" =>
             /\ tool.posts = 0
             /\ tool.result.sources = <<>>
             /\ tool.result.error.text =
                  <<"Tavily API key not configured; skipping live search.">>

C13_Witness ==
    /\ tool.name = "search"
    /\ tavily_key # ""
    /\ tool.posts = 1
    /\ tool.result.sources = <<>>
    /\ tool.result.error.text = <<"Tavily search returned no results.">>

-----------------------------------------------------------------------------
(* Claims about the KISTI MCP client *)

\* the i-th event of the MCP call is a request of the given verb
IsRequest(i, verb) == mcp.events[i][1] = verb

\* the i-th event is a health check that was answered: no sleep follows it
HandshakeOk(i) ==
    /\ IsRequest(i, "GET")
    /\ (i < Len(mcp.events) => mcp.events[i + 1][1] # "sleep")

\* C14: in run_experiment every execute POST comes after a health check that
\* succeeded in the same call; the startup command is launched only after
\* every attempt of the first check failed and only if one is configured;
\* once the first check failed and a command is configured a process is
\* running for the re-check; and a call in which no check succeeded ends with
\* the connection error without any POST.
C14_PostOnlyAfterHandshake ==
    /\ \A i \in 1..Len(mcp.events) :
         /\ IsRequest(i, "POST") => \E j \in 1..(i - 1) : HandshakeOk(j)
         /\ IsRequest(i, "Popen") =>
              /\ mcp_config.startup_command # ""
              /\ process # NoProcess
              /\ \A j \in 1..(i - 1) : IsRequest(j, "GET") => ~HandshakeOk(j)
    /\ (mcp.pc = "handshake2" /\ mcp_config.startup_command # "") =>
         process # NoProcess
    /\ (mcp.pc = "done" /\ \A j \in 1..Len(mcp.events) : ~HandshakeOk(j)) =>
         /\ op.raised = "ConnectionError"
         /\ \A i \in 1..Len(mcp.events) : ~IsRequest(i, "POST")
    /\ op.raised = "ConnectionError" =>
         \A i \in 1..Len(mcp.events) : ~IsRequest(i, "POST")

C14_Witness ==
    /\ mcp.pc = "done"
    /\ op.raised = NoText
    /\ \E i \in 1..Len(mcp.events) : IsRequest(i, "Popen")
    /\ \E i \in 1..Len(mcp.events) : IsRequest(i, "POST")

\* the backend adapter's retry loop fed the given HTTP outcomes, one per attempt
RECURSIVE BackendFed(_, _, _)
BackendFed(cfg, c, outs) ==
    IF outs = <<>> \/ c.pc # "loop" \/ ~HasNextAttempt(cfg, c) THEN c
    ELSE BackendFed(cfg, RetryAttempt(cfg, c, Head(outs)), Tail(outs))

\* a backend configuration with the MCP client's max_retries and backoff
BackendLike(mcfg) ==
    [BackendConfig(DefaultProvider, DefaultModel, mcfg.max_retries)
        EXCEPT !.retry_backoff = mcfg.retry_backoff]

\* the events of the MCP call from its first execute POST on
RECURSIVE FromFirstPost(_)
FromFirstPost(ev) ==
    IF ev = <<>> THEN <<>>
    ELSE IF Head(ev)[1] = "POST" THEN ev
    ELSE FromFirstPost(Tail(ev))

\* C15: the execute POST is retried as the backend adapter retries a generate
\* request: for the HTTP outcomes the POST attempts met so far, the attempts
\* and sleeps of the MCP client are those the backend's retry loop makes on
\* the same outcomes with the same max_retries and backoff; in particular no
\* attempt and no sleep follows a 4xx reply.
C15_SameRetryPolicy ==
    mcp.outcomes # <<>> =>
        LET cfg == BackendLike(mcp_config)
            c == BackendFed(cfg, StartCall(cfg, DefaultProvider), mcp.outcomes)
        IN /\ FromFirstPost(mcp.events) = c.events
           /\ mcp.attempt = c.attempt

\* the text holds the token
HasToken(text, token) == \E i \in 1..Len(text) : text[i] = token

SummaryHeading == "### MCP Execution Summary"
OutputHeading == "### Output"
LogsHeading == "### Logs"
SummaryPlaceholder == "The MCP server did not return an explicit summary."

\* C16 (as stated): the report of interpret_result holds the summary part, the
\* output part and the logs part each if and only if the raw result has the
\* field (summary; stdout or result; logs or stderr).
C16_PartsIffPresent ==
    tool.name = "interpret" =>
        LET d == tool.arg[1]
        IN /\ HasToken(tool.result, SummaryHeading) <=> d.summary # ""
           /\ HasToken(tool.result, OutputHeading) <=> (d.stdout # "" \/ d.result # "")
           /\ HasToken(tool.result, LogsHeading) <=> (d.logs # "" \/ d.stderr # "")

\* C16 (amended): the report always opens with the summary heading, followed
\* by the summary text or, if there is none, by a fixed placeholder line; it
\* always holds the output heading, followed by stdout, else result, else
\* nothing; it holds the logs heading and the logs (logs, else stderr) if and
\* only if logs or stderr is present.
C16_LogsOnlyIfPresent ==
    tool.name = "interpret" =>
        LET d == tool.arg[1]
            r == tool.result
        IN /\ r[1] = SummaryHeading
           /\ HasToken(r, IF d.summary # "" THEN d.summary ELSE SummaryPlaceholder)
           /\ d.summary # "" => ~HasToken(r, SummaryPlaceholder)
           /\ HasToken(r, OutputHeading)
           /\ d.stdout # "" => (HasToken(r, d.stdout) /\ ~HasToken(r, "ok"))
           /\ (d.stdout = "" /\ d.result # "") => HasToken(r, d.result)
           /\ (d.stdout = "" /\ d.result = "") =>
                (~HasToken(r, "42") /\ ~HasToken(r, "ok"))
           /\ HasToken(r, LogsHeading) <=> (d.logs # "" \/ d.stderr # "")
           /\ d.logs # "" => (r[Len(r)] = d.logs /\ ~HasToken(r, "trace"))
           /\ (d.logs = "" /\ d.stderr # "") => r[Len(r)] = d.stderr

C16_Witness ==
    /\ tool.name = "interpret"
    /\ tool.arg[1].summary = ""
    /\ tool.arg[1].stdout = ""
    /\ tool.arg[1].result = "ok"
    /\ tool.arg[1].logs = ""
    /\ tool.arg[1].stderr = "trace"
    /\ HasToken(tool.result, SummaryPlaceholder)
    /\ HasToken(tool.result, LogsHeading)

\* C17: after any sequence of ingest calls, query(q, k) with k >= 0 returns the
\* first min(k, n) of the n stored items in ingestion order, whatever q is, and
\* nothing when the store is empty; an ingest call only appends, so the store
\* before it is a prefix of the store after it.
C17_QueryReturnsFirstK ==
    /\ (tool.name = "query" /\ tool.k >= 0) =>
         LET n == Len(documents)
             m == IF tool.k < n THEN tool.k ELSE n
         IN /\ Len(tool.result) = m
            /\ \A i \in 1..m : tool.result[i] = documents[i]
    /\ (tool.name = "query" /\ documents = <<>>) => tool.result = <<>>
    /\ tool.name = "ingest" =>
         /\ IsPrefix(tool.before, documents)
         /\ documents = tool.before \o tool.docs

C17_Witness ==
    /\ tool.name = "query"
    /\ tool.query = "plasma"
    /\ tool.k = 1
    /\ Len(documents) = 2
    /\ documents[1] # documents[2]
    /\ tool.result = <<documents[1]>>

\* the line, written as text, is a heading: markers first, then a title
IsHeadingLine(line) ==
    /\ StartsWithHash(Strip(line))
    /\ Strip(LStrip(Strip(line), {"#"})) # <<>>

\* the titles of the heading lines among the lines written, in line order
RECURSIVE HeadingTitles(_)
HeadingTitles(lines) ==
    IF lines = <<>> THEN <<>>
    ELSE IF IsHeadingLine(Head(lines))
       THEN <<Strip(LStrip(Strip(Head(lines)), {"#"}))>> \o HeadingTitles(Tail(lines))
    ELSE HeadingTitles(Tail(lines))

\* C18: for an outline written as a list of lines, the section-title
\* extractor returns, in line order, the title of every line that starts with
\* heading markers and has a non-blank title, and the single default title
\* when there is no such line; its result is never the empty list.
C18_SectionTitles ==
    tool.name = "parse" =>
        /\ tool.result # <<>>
        /\ (\E i \in 1..Len(tool.docs) : IsHeadingLine(tool.docs[i])) =>
             tool.result = HeadingTitles(tool.docs)
        /\ (\A i \in 1..Len(tool.docs) : ~IsHeadingLine(tool.docs[i])) =>
             tool.result = <<DefaultSection>>

C18_Witness ==
    /\ tool.name = "parse"
    /\ tool.docs = <<<<"#", " ", "A">>, <<"#", "#", " ", "B">>>>
    /\ tool.arg = <<"#", " ", "A", "NL", "#", "#", " ", "B">>
    /\ tool.result = <<<<"A">>, <<"B">>>>

-----------------------------------------------------------------------------
(* Claims about shared state *)

\* C19: every step of generate_outline, synthesize_section, run_expert_round
\* and collaborative_dialogue leaves the expert roster (members and order) and
\* the items of the note store as they were, whatever the backend and the
\* tools answer; the roster changes only by a register (one persona appended)
\* or a clear, made while no operation runs, and the note store only by an
\* ingest, which appends.
C19_RosterAndStoreFrame ==
    [][/\ op' # op => (experts' = experts /\ documents' = documents)
       /\ experts' # experts =>
            /\ op' = op
            /\ op.pc = "idle"
            /\ \/ experts' = <<>>
               \/ \E e \in Personas : experts' = Append(experts, e)
       /\ documents' # documents =>
            /\ op' = op
            /\ tool'.name = "ingest"
            /\ IsPrefix(documents, documents')]_vars

C19_Witness ==
    /\ op.name = "run_expert_round"
    /\ op.pc = "done"
    /\ op.raised = NoText
    /\ Len(experts) = 2
    /\ documents = <<<<>>, <<"note a">>>>
    /\ DictGet(op.result[1], "rag") = <<"NL", "note a">>

-----------------------------------------------------------------------------
(* Claims about the order of attempts *)

\* the attempt failed with an error the loop retries
FailedRetryably(c, out) ==
    /\ Request(c.provider, out).kind = "raise"
    /\ IsRetryable(Request(c.provider, out).exc)

\* seconds slept over a call's events
RECURSIVE SleepTotal(_)
SleepTotal(events) ==
    IF events = <<>> THEN 0
    ELSE (IF Head(events)[1] = "sleep" THEN Head(events)[2] ELSE 0)
         + SleepTotal(Tail(events))

\* POST 1, sleep b*1, ..., POST k-1, sleep b*(k-1), POST k, return
SuccessScript(cfg, k) ==
    [j \in 1..(2 * k) |->
        IF j = 2 * k THEN <<"return", 0>>
        ELSE IF j % 2 = 1 THEN <<"POST", (j + 1) \div 2>>
        ELSE <<"sleep", cfg.retry_backoff * (j \div 2)>>]

\* C20: when attempts 1..k-1 of a generate call fail with retryable errors and
\* attempt k succeeds, k is at most max_retries, the call is over with attempt
\* k's parsed response as its result, attempt k is the last one, the call's
\* events are POST and sleep(retry_backoff * i) for each i < k, then POST k,
\* then the return, so that the sleeps add up to
\* retry_backoff * (1 + 2 + ... + (k - 1)) and none follows the success.
C20_StopsAtFirstSuccess ==
    \A k \in 1..Len(call.outcomes) :
        (/\ Parsed(call.outcomes[k])
         /\ \A i \in 1..(k - 1) : FailedRetryably(call, call.outcomes[i])) =>
            /\ k <= config.max_retries
            /\ k = Len(call.outcomes)
            /\ call.attempt = k
            /\ call.pc = "done"
            /\ call.result = Request(call.provider, call.outcomes[k]).value
            /\ call.events = SuccessScript(config, k)
            /\ SleepTotal(call.events) = config.retry_backoff * ((k * (k - 1)) \div 2)

C20_Witness ==
    /\ call.pc = "done"
    /\ config.max_retries = 3
    /\ Len(call.outcomes) = 3
    /\ call.outcomes[1].kind = "transport"
    /\ call.outcomes[2].status = 503
    /\ Parsed(call.outcomes[3])
    /\ SleepTotal(call.events) = config.retry_backoff * 3
    /\ config.retry_backoff > 0

-----------------------------------------------------------------------------
(* Claims about the client's lifetime *)

\* how many times the events of a call launch the startup command
RECURSIVE Launches(_)
Launches(ev) ==
    IF ev = <<>> THEN 0
    ELSE (IF Head(ev)[1] = "Popen" THEN 1 ELSE 0) + Launches(Tail(ev))

\* the step launches the startup command
LaunchStep == Launches(mcp'.events) > Launches(mcp.events)

\* C21: over every sequence of run_experiment calls on one client, a step
\* launches the startup command only while no process was ever started, only
\* with a startup command configured and only after the call's first health
\* check gave up without a success; the launch sets the process handle, the
\* handle never changes afterwards, and it changes in no other step, so the
\* command is launched at most once in the client's lifetime; a call in which
\* a health check succeeded before any launch launches nothing.
C21_StartupLaunchedOnce ==
    [][/\ LaunchStep =>
            /\ process = NoProcess
            /\ process' # NoProcess
            /\ mcp_config.startup_command # ""
            /\ mcp.pc = "handshake1"
            /\ \A j \in 1..Len(mcp.events) : ~HandshakeOk(j)
            /\ Launches(mcp'.events) = 1
       /\ process # NoProcess => process' = process
       /\ process' # process => LaunchStep
       /\ (\E j \in 1..Len(mcp'.events) :
              /\ HandshakeOk(j)'
              /\ Launches(SubSeq(mcp'.events, 1, j)) = 0) =>
            Launches(mcp'.events) = 0]_vars

C21_Witness ==
    /\ mcp_config.startup_command # ""
    /\ process # NoProcess
    /\ mcp.pc = "done"
    /\ op.raised = NoText
    /\ Launches(mcp.events) = 0
    /\ \E j \in 1..Len(mcp.events) : IsRequest(j, "GET") /\ ~HandshakeOk(j)
    /\ \E j \in 1..Len(mcp.events) : IsRequest(j, "POST")

====
